---- MODULE Spec2Model ----
(***************************************************************************)
(* Model of the picture/word drill page: src/app.js (target loading, the   *)
(* recognizer callbacks, checkResult, the start/next button handlers and   *)
(* the capture pipeline) and src/vosk-worker.js.                           *)
(*                                                                         *)
(* Strings are sequences of one-character strings, so that toLowerCase,    *)
(* trim, split and join are computed character by character.  Confidence   *)
(* scores are integers in thousandths (0.30 is 300).                       *)
(***************************************************************************)
EXTENDS Integers, Sequences, FiniteSets, TLC

\* ------------------------------------------------------------------ bounds

\* Spec: most lines in the fetched target file
MaxLines == 3
\* Spec: most start-requests that begin a capture in one run
MaxStarts == 2
\* Spec: most final results the recognizer delivers in one run
MaxFinals == 2
\* SpecMatch: most lines in the fetched target file
MatchLines == 2
\* SpecMatch, SpecTeardown: most captures, and most final results, in one run
MatchRounds == 1
\* SpecLoad: most lines in the fetched target file
ParseLines == 3
\* SpecWorker: most messages the worker receives in one run
MaxMessages == 4

\* ------------------------------------------------------- program constants

\* app.js:6, CONFIDENCE_THRESHOLD = 0.30, in thousandths
CONFIDENCE_THRESHOLD == 300

\* ------------------------------------------------------- string primitives

\* String.prototype.toLowerCase on one character of the alphabet used here
LowerChar(c) ==
    CASE c = "A" -> "a"
      [] c = "B" -> "b"
      [] OTHER -> c

toLowerCase(s) == [i \in 1..Len(s) |-> LowerChar(s[i])]

\* white space as String.prototype.trim sees it
IsWhiteSpace(c) == c \in {" ", "\n", "\t", "\r"}

RECURSIVE trimStart(_)
trimStart(s) ==
    IF s = <<>> THEN <<>>
    ELSE IF IsWhiteSpace(Head(s)) THEN trimStart(Tail(s))
    ELSE s

RECURSIVE trimEnd(_)
trimEnd(s) ==
    IF s = <<>> THEN <<>>
    ELSE IF IsWhiteSpace(s[Len(s)]) THEN trimEnd(SubSeq(s, 1, Len(s) - 1))
    ELSE s

\* String.prototype.trim
trim(s) == trimEnd(trimStart(s))

\* String.prototype.split(sep) for a one-character separator: the pieces
\* between separators, empty pieces kept; "" splits into one empty piece
RECURSIVE splitFrom(_, _, _)
splitFrom(s, sep, cur) ==
    IF s = <<>> THEN <<cur>>
    ELSE IF Head(s) = sep THEN <<cur>> \o splitFrom(Tail(s), sep, <<>>)
    ELSE splitFrom(Tail(s), sep, Append(cur, Head(s)))

split(s, sep) == splitFrom(s, sep, <<>>)

\* Array.prototype.join(sep) for a separator string
RECURSIVE join(_, _)
join(parts, sep) ==
    IF parts = <<>> THEN <<>>
    ELSE IF Len(parts) = 1 THEN parts[1]
    ELSE parts[1] \o sep \o join(Tail(parts), sep)

\* Math.round(confidence * 100) for a confidence in thousandths
RoundPercent(conf) == (conf + 5) \div 10

\* ------------------------------------------------------------------ inputs

\* lines a target file is made of: well-formed lines (LineB with padded
\* fields, an upper-case letter and a leading underscore in its key) and a
\* line with two fields only
LineA == <<"a", "_", "b", ",", "d", ",", "p", ",", "c">>
LineB == <<" ", "_", "B", " ", ",", "e", ",", " ", "q", ",", "c">>
LineC == <<"b", ",", "f", ",", "r", ",", "c">>
LineBad == <<"a", ",", "d">>
Lines == {LineA, LineB, LineBad}

\* line i of the files of SessionFiles
FileLine(i) ==
    CASE i % 4 = 1 -> LineA
      [] i % 4 = 2 -> LineB
      [] i % 4 = 3 -> LineC
      [] OTHER -> LineBad

\* Spec: the file contents the fetch can return, files of 0..MaxLines lines
SessionFiles ==
    {join([i \in 1..n |-> FileLine(i)], <<"\n">>) : n \in 0..MaxLines}

\* SpecMatch: the file contents the fetch can return, every file of up to
\* MatchLines lines drawn from Lines
TargetFiles ==
    {join(ls, <<"\n">>) : ls \in UNION {[1..n -> Lines] : n \in 0..MatchLines}}

\* SpecLoad: lines with five fields, with four empty fields, with a carriage
\* return at the end, and blank lines
LineLong == <<"a", ",", "d", ",", "p", ",", "c", ",", "x">>
LineEmpty == <<",", ",", ",">>
LineCR == <<"b", ",", "f", ",", "r", ",", "c", "\r">>
LineBlank == <<>>
LineSpace == <<" ">>
ParseLineSet == {LineA, LineB, LineBad, LineLong, LineEmpty, LineCR, LineBlank, LineSpace}

\* SpecLoad: every file of up to ParseLines lines drawn from ParseLineSet
ParseFiles ==
    {join(ls, <<"\n">>) : ls \in UNION {[1..n -> ParseLineSet] : n \in 0..ParseLines}}

\* texts the recognizer can report, for a result or for an alternative
RecognizedTexts ==
    {<<>>, <<"a", " ", "b">>, <<" ", "A", " ", "b", " ">>, <<"b">>, <<" ", "b">>}

\* an alternative without a conf field
NoConf == -1
\* confidence scores of an alternative, in thousandths
Confidences == {NoConf, 290, 295, 300, 500}

\* result.alternatives: absent, an empty list, or a list whose first entry
\* has a text and possibly a confidence
NoAlternatives == [present |-> FALSE, list |-> <<>>]
AlternativeLists ==
    {NoAlternatives, [present |-> TRUE, list |-> <<>>]}
    \cup {[present |-> TRUE, list |-> <<[text |-> t, conf |-> c]>>] :
            t \in RecognizedTexts \ {<<>>}, c \in Confidences}

\* the parsed final results the recognizer can deliver
FinalResults ==
    {[text |-> t, alternatives |-> a] : t \in {<<>>, <<"a", " ", "b">>}, a \in AlternativeLists}

\* Spec: the final results of a session: no text, a text without
\* alternatives, the first target's phrase well above and just below the
\* threshold, and another phrase
SessionResults ==
    {[text |-> <<>>, alternatives |-> NoAlternatives],
     [text |-> <<"a", " ", "b">>, alternatives |-> NoAlternatives]}
    \cup {[text |-> <<"a", " ", "b">>,
           alternatives |-> [present |-> TRUE, list |-> <<[text |-> t, conf |-> c]>>]] :
            t \in {<<"a", " ", "b">>}, c \in {295, 500}}

\* the release step of stopRecognition that throws: none, or the stop of the
\* tracks, the disconnect of the processor, the close of the context (a
\* webkitAudioContext, app.js:167, may have no close method)
NoFault == "none"
TeardownFaults == {NoFault, "stop", "disconnect", "close"}

\* interim texts of partial results
PartialTexts == {<<"a">>}

\* ------------------------------------------------------------------- state

VARIABLES
    loadState,           \* window load handler: "loading" until loadTargets settles
    targets,             \* app.js:17
    currentTargetIndex,  \* app.js:16, 0-based
    recognizer,          \* app.js:15
    audioContext,        \* app.js:18, the id of a capture attempt or Undefined
    mediaStream,         \* app.js:19
    processor,           \* app.js:20
    startDisabled,       \* startButton.disabled
    nextDisabled,        \* nextButton.disabled
    imageSrc,            \* imageDisplay.src
    promptText,          \* promptText.textContent
    feedback,            \* feedbackArea.textContent
    feedbackColor,       \* feedbackArea.style.color
    transcript,          \* transcriptArea.textContent
    captures,            \* the browser's audio objects, one entry per start attempt
    finals,              \* final results delivered so far
    lastEvent,           \* history: the handler that ran last, and its input
    trail,               \* history: indices reached by advances since index 0
    worker               \* vosk-worker.js: its globals, promises and posted messages

vars == <<loadState, targets, currentTargetIndex, recognizer, audioContext,
          mediaStream, processor, startDisabled, nextDisabled, imageSrc,
          promptText, feedback, feedbackColor, transcript, captures, finals,
          lastEvent, trail, worker>>

\* the variables of the page, app.js
page == <<loadState, targets, currentTargetIndex, recognizer, audioContext,
          mediaStream, processor, startDisabled, nextDisabled, imageSrc,
          promptText, feedback, feedbackColor, transcript, captures, finals,
          lastEvent, trail>>

display == <<imageSrc, promptText, feedback, feedbackColor, transcript>>
globals == <<audioContext, mediaStream, processor>>
history == <<lastEvent, trail>>

\* a global that was never assigned
Undefined == 0
\* (n + 1) % 0 in JavaScript
NaN == -1

\* ----------------------------------------------------------- display texts

NoText == [kind |-> "empty"]
Initializing == [kind |-> "Initializing recognizer... Please wait."]
Listening == [kind |-> "... LISTENING ..."]
FailedToRecognize == [kind |-> "Failed to recognize speech."]
Correct(pct) == [kind |-> "CORRECT!", pct |-> pct]
TryAgain(heard, pct) == [kind |-> "TRY AGAIN.", heard |-> heard, pct |-> pct]
MicError(name) == [kind |-> "Mic Error", name |-> name]
ClickStart == [kind |-> "Click Start Recognition when ready."]
RecognitionComplete == [kind |-> "Recognition Complete."]
Partial(text) == [kind |-> "partial", text |-> text]
Prompt(text) == [kind |-> "prompt", text |-> text]

\* -------------------------------------------------------------- loadTargets

Null == [null |-> TRUE]

\* a variant that takes the first four of four or more fields
parseLineAtLeastFour(line) ==
    LET fields == split(line, ",")
        parts == [i \in 1..Len(fields) |-> trim(fields[i])]
    IN  IF Len(parts) >= 4
        THEN [key |-> parts[1], display |-> parts[2],
              path |-> parts[3], category |-> parts[4]]
        ELSE Null

\* app.js:42-52, one line of the file
parseLine(line) ==
    LET fields == split(line, ",")
        parts == [i \in 1..Len(fields) |-> trim(fields[i])]
    IN  IF Len(parts) = 4
        THEN [key |-> parts[1], display |-> parts[2],
              path |-> parts[3], category |-> parts[4]]
        ELSE Null

\* app.js:40-53
parseTargets(text) ==
    LET lines == split(trim(text), "\n")
        items == [i \in 1..Len(lines) |-> parseLine(lines[i])]
    IN  SelectSeq(items, LAMBDA item : item # Null)

\* what loadTargets shows when it fails
EmptyTargetsError == [kind |-> "Error: Targets file is empty or formatted incorrectly."]
TargetError == [kind |-> "Target Error"]
Loaded(n) == [kind |-> "Loaded", count |-> n]

\* ------------------------------------------------------------- updateTarget

\* app.js:142-151, as the values of <<imageSrc, promptText, feedback,
\* transcript, startDisabled>> after the call
updateTarget(tgts, index, before) ==
    IF Len(tgts) = 0 THEN before
    ELSE <<tgts[index + 1].path, Prompt(tgts[index + 1].display), NoText, ClickStart, FALSE>>

\* ---------------------------------------------------------- vosk-worker.js

\* callbackIds of the messages sent to the worker
CallbackIds == {1, 2}

\* how the promise of Vosk.Model settles: with a model whose Recognizer can
\* be constructed, with a model whose Recognizer constructor throws, with no
\* model at all, or rejected
ModelOutcomes == {"model", "modelWithoutRecognizer", "null", "rejected"}

\* vosk-worker.js:6-7, the worker before any message: model and recognizer
\* undefined; pending holds the callbackIds of the Vosk.Model promises not
\* settled yet, posted the messages sent back, calls the methods called on
\* the recognizer, last the message or promise handled last
NewWorker ==
    [model |-> "undefined", recognizer |-> FALSE, closed |-> FALSE,
     pending |-> <<>>, posted |-> <<>>, calls |-> <<>>, handled |-> 0,
     last |-> [command |-> "none"]]

ErrorMessage(callbackId) == [callbackId |-> callbackId, kind |-> "error"]
ResultMessage(callbackId) == [callbackId |-> callbackId, kind |-> "result"]

\* a message arrives at a worker that was not closed
Receive(command) ==
    /\ ~worker.closed
    /\ worker.handled < MaxMessages
    /\ UNCHANGED page

Handled(w, last) == [w EXCEPT !.handled = @ + 1, !.last = last]

\* vosk-worker.js:13-25: Vosk.Model(modelName) is called, its promise pends
initialize(callbackId) ==
    /\ Receive("initialize")
    /\ worker' = Handled([worker EXCEPT !.pending = Append(@, callbackId)],
                         [command |-> "initialize", callbackId |-> callbackId])

\* pending without its entry i
Without(pending, i) ==
    SubSeq(pending, 1, i - 1) \o SubSeq(pending, i + 1, Len(pending))

\* vosk-worker.js:15-24: promise i of Vosk.Model settles.  then: model = m and
\* the recognizer is constructed; a throw in then (no model to construct
\* from, or a throwing constructor) and a rejection both reach catch, which
\* posts the error with the callbackId of the request
initializeSettled(i, outcome) ==
    /\ ~worker.closed
    /\ i \in 1..Len(worker.pending)
    /\ UNCHANGED page
    /\ LET callbackId == worker.pending[i]
           settled == [worker EXCEPT !.pending = Without(@, i),
                                     !.last = [command |-> "settled",
                                               callbackId |-> callbackId,
                                               outcome |-> outcome]]
       IN  worker' =
             CASE outcome = "model" ->
                    [settled EXCEPT !.model = "loaded", !.recognizer = TRUE]
               [] outcome = "modelWithoutRecognizer" ->
                    [settled EXCEPT !.model = "loaded",
                                    !.posted = Append(@, ErrorMessage(callbackId))]
               [] outcome = "null" ->
                    [settled EXCEPT !.model = "null",
                                    !.posted = Append(@, ErrorMessage(callbackId))]
               [] OTHER ->
                    [settled EXCEPT !.posted = Append(@, ErrorMessage(callbackId))]

\* a variant of process that posts whatever acceptWaveform returned
processAlwaysPosts(callbackId, results) ==
    /\ Receive("process")
    /\ worker' = Handled(
         IF worker.recognizer
         THEN [worker EXCEPT !.calls = Append(@, "acceptWaveform"),
                             !.posted = Append(@, ResultMessage(callbackId))]
         ELSE worker,
         [command |-> "process", callbackId |-> callbackId, results |-> results])

\* vosk-worker.js:27-34; results says whether acceptWaveform returned a result
process(callbackId, results) ==
    /\ Receive("process")
    /\ worker' = Handled(
         IF worker.recognizer
         THEN [worker EXCEPT !.calls = Append(@, "acceptWaveform"),
                             !.posted = IF results
                                        THEN Append(@, ResultMessage(callbackId))
                                        ELSE @]
         ELSE worker,
         [command |-> "process", callbackId |-> callbackId, results |-> results])

\* vosk-worker.js:36-46 and 54-58: setWords, setGrammar and reset call the
\* method of that name when a recognizer exists and, for the first two, the
\* words or grammar are given; reset takes no argument
configure(command, given) ==
    /\ Receive(command)
    /\ worker' = Handled(
         IF worker.recognizer /\ given
         THEN [worker EXCEPT !.calls = Append(@, command)]
         ELSE worker,
         [command |-> command, given |-> given])

\* vosk-worker.js:48-52, setRecognitionParams does nothing
setRecognitionParams ==
    /\ Receive("setRecognitionParams")
    /\ worker' = Handled(worker, [command |-> "setRecognitionParams"])

\* vosk-worker.js:60-65
terminate ==
    /\ Receive("terminate")
    /\ worker' = Handled(
         [worker EXCEPT !.calls = IF worker.recognizer THEN Append(@, "terminate") ELSE @,
                        !.closed = TRUE],
         [command |-> "terminate"])

\* ------------------------------------------------------------------- events

Event(op, arg) == [op |-> op, arg |-> arg]

Init ==
    /\ loadState = "loading"
    /\ targets = <<>>
    /\ currentTargetIndex = 0
    /\ recognizer = [created |-> FALSE, grammar |-> <<>>, instances |-> 0]
    /\ audioContext = Undefined
    /\ mediaStream = Undefined
    /\ processor = Undefined
    /\ startDisabled \in BOOLEAN
    /\ nextDisabled = TRUE
    /\ imageSrc = <<>>
    /\ promptText = NoText
    /\ feedback = NoText
    /\ feedbackColor = ""
    /\ transcript = NoText
    /\ captures = <<>>
    /\ finals = 0
    /\ lastEvent = Event("none", 0)
    /\ trail = <<>>
    /\ worker = NewWorker

\* a variant that never enables the next button
navigationLeftAsIs(tgts, before) == before

\* app.js:55-61, nextButton.disabled after loadTargets
navigationDisabled(tgts, before) == IF Len(tgts) = 0 THEN before ELSE FALSE

\* app.js:33-67 and 217-223: the fetch settles, loadTargets finishes and the
\* load handler's then-callback calls updateTarget
LoadFetched(text) ==
    /\ loadState = "loading"
    /\ loadState' = "loaded"
    /\ targets' = parseTargets(text)
    /\ nextDisabled' = navigationDisabled(targets', nextDisabled)
    /\ LET shown == IF Len(targets') = 0 THEN EmptyTargetsError ELSE Loaded(Len(targets'))
           after == updateTarget(targets', currentTargetIndex,
                                 <<imageSrc, shown, feedback, transcript, startDisabled>>)
       IN  /\ imageSrc' = after[1]
           /\ promptText' = after[2]
           /\ feedback' = after[3]
           /\ transcript' = after[4]
           /\ startDisabled' = after[5]
    /\ lastEvent' = Event("load", text)
    /\ UNCHANGED <<currentTargetIndex, recognizer, audioContext, mediaStream,
                   processor, feedbackColor, captures, finals, trail>>

\* app.js:35-38 and 63-66: the fetch fails or the response is not ok; the
\* catch shows the error and the then-callback's updateTarget returns at once
LoadFailed ==
    /\ loadState = "loading"
    /\ loadState' = "failed"
    /\ promptText' = TargetError
    /\ lastEvent' = Event("loadFailed", 0)
    /\ UNCHANGED <<targets, currentTargetIndex, recognizer, audioContext,
                   mediaStream, processor, startDisabled, nextDisabled, imageSrc,
                   feedback, feedbackColor, transcript, captures, finals, trail>>

\* a variant that stops at the last target instead of wrapping
nextIndexClamped(index, n) == IF index + 1 >= n THEN index ELSE index + 1

\* app.js:208
nextIndex(index, n) == IF n = 0 THEN NaN ELSE (index + 1) % n

\* app.js:207-210, the click handler of the next button; a disabled button
\* delivers no click
nextTarget ==
    /\ ~nextDisabled
    /\ currentTargetIndex' = nextIndex(currentTargetIndex, Len(targets))
    /\ LET after == updateTarget(targets, currentTargetIndex',
                                 <<imageSrc, promptText, feedback, transcript, startDisabled>>)
       IN  /\ imageSrc' = after[1]
           /\ promptText' = after[2]
           /\ feedback' = after[3]
           /\ transcript' = after[4]
           /\ startDisabled' = after[5]
    /\ trail' = IF currentTargetIndex = 0 THEN <<currentTargetIndex'>>
                ELSE Append(trail, currentTargetIndex')
    /\ lastEvent' = Event("next", currentTargetIndex)
    /\ UNCHANGED <<loadState, targets, recognizer, audioContext, mediaStream,
                   processor, nextDisabled, feedbackColor, captures, finals>>

\* ---------------------------------------------------------- setupRecognizer

\* a variant that keeps the case of the key
grammarPhraseKeepCase(key) == join(split(key, "_"), <<" ">>)

\* app.js:75, the phrase of one target in the grammar
grammarPhrase(key) == join(split(toLowerCase(key), "_"), <<" ">>)

\* app.js:75
grammarList(tgts) == [i \in 1..Len(tgts) |-> grammarPhrase(tgts[i].key)]

\* a variant that builds the rule from the first target only
grammarRootOfFirst(tgts) == grammarPhrase(tgts[1].key)

\* app.js:78-81, the root rule of the grammar
grammarRoot(tgts) == join(grammarList(tgts), <<" ", "|", " ">>)

\* app.js:84-88, new Vosk.Recognizer with the grammar; instances counts the
\* recognizers constructed in the session
newRecognizer(grammar) ==
    [created |-> TRUE, grammar |-> grammar, instances |-> recognizer.instances + 1]

\* ------------------------------------------------------ the audio pipeline

\* what a start attempt has made so far: its audio context (closeCalls counts
\* close()), its media stream once granted (stopCalls counts the stop() of its
\* tracks) and its processor node once created (procCtx is the context that
\* made it, discCalls counts disconnect()); target is the index that was
\* current when the attempt began
NewCapture ==
    [stream |-> "awaiting", closeCalls |-> 0, stopCalls |-> 0,
     procCtx |-> Undefined, discCalls |-> 0, target |-> currentTargetIndex]

\* one more call of a release method on the object a global refers to
Bump(caps, id, field) ==
    IF id = Undefined THEN caps ELSE [caps EXCEPT ![id][field] = @ + 1]

\* app.js:196-204, the three release steps of stopRecognition, in order; the
\* step named by thrown throws when it is reached, has no effect, and the
\* statements after it do not run
released(caps, thrown) ==
    LET threwAtStop == thrown = "stop" /\ mediaStream # Undefined
        afterStop == IF threwAtStop THEN caps
                     ELSE Bump(caps, mediaStream, "stopCalls")
        threwAtDisconnect ==
            ~threwAtStop /\ thrown = "disconnect" /\ processor # Undefined
        afterDisconnect == IF threwAtStop \/ threwAtDisconnect THEN afterStop
                           ELSE Bump(afterStop, processor, "discCalls")
        threwAtClose == thrown = "close" /\ audioContext # Undefined
    IN  IF threwAtStop \/ threwAtDisconnect \/ threwAtClose THEN afterDisconnect
        ELSE Bump(afterDisconnect, audioContext, "closeCalls")

\* a connected processor in a context that was not closed gets audio buffers
\* and hands them to the recognizer (app.js:176-179)
Feeding(k) ==
    /\ captures[k].procCtx # Undefined
    /\ captures[k].discCalls = 0
    /\ captures[captures[k].procCtx].closeCalls = 0

AudioFlowing == \E k \in 1..Len(captures) : Feeding(k)

\* a start attempt whose getUserMedia has not settled
Awaiting(k) == captures[k].stream = "awaiting"

\* --------------------------------------------------------- startRecognition

\* a variant without the return of app.js:159: the request goes on to the
\* capture once the recognizer was set up
startQueued(made) ==
    /\ ~recognizer.created
    /\ recognizer' = IF Len(targets) # 0 /\ made
                     THEN newRecognizer(grammarRoot(targets))
                     ELSE recognizer
    /\ startDisabled' = TRUE
    /\ feedback' = Listening
    /\ feedbackColor' = "blue"
    /\ captures' = Append(captures, NewCapture)
    /\ audioContext' = Len(captures) + 1
    /\ lastEvent' = Event("start", "setup")
    /\ UNCHANGED <<loadState, targets, currentTargetIndex, mediaStream,
                   processor, nextDisabled, imageSrc, promptText, transcript,
                   finals, trail>>

\* a variant without the guard of app.js:71: the recognizer is made even
\* when no target is loaded
startWithoutTargetsGuard(made) ==
    /\ ~recognizer.created
    /\ feedback' = Initializing
    /\ recognizer' = IF made
                     THEN newRecognizer(grammarRoot(targets))
                     ELSE recognizer
    /\ lastEvent' = Event("start", "setup")
    /\ UNCHANGED <<loadState, targets, currentTargetIndex, audioContext,
                   mediaStream, processor, startDisabled, nextDisabled, imageSrc,
                   promptText, feedbackColor, transcript, captures, finals, trail>>

\* app.js:156-160 with setupRecognizer, app.js:70-103: no recognizer yet.
\* made says whether new Vosk.Recognizer returned or threw
startWithoutRecognizer(made) ==
    /\ ~recognizer.created
    /\ feedback' = Initializing
    /\ recognizer' = IF Len(targets) # 0 /\ made
                     THEN newRecognizer(grammarRoot(targets))
                     ELSE recognizer
    /\ lastEvent' = Event("start", "setup")
    /\ UNCHANGED <<loadState, targets, currentTargetIndex, audioContext,
                   mediaStream, processor, startDisabled, nextDisabled, imageSrc,
                   promptText, feedbackColor, transcript, captures, finals, trail>>

\* app.js:162-168, up to the await of getUserMedia
startCapture ==
    /\ recognizer.created
    /\ startDisabled' = TRUE
    /\ feedback' = Listening
    /\ feedbackColor' = "blue"
    /\ captures' = Append(captures, NewCapture)
    /\ audioContext' = Len(captures) + 1
    /\ lastEvent' = Event("start", "capture")
    /\ UNCHANGED <<loadState, targets, currentTargetIndex, recognizer,
                   mediaStream, processor, nextDisabled, imageSrc, promptText,
                   transcript, finals, trail>>

\* app.js:155-192, the click handler of the start button; a disabled button
\* delivers no click
startRecognition ==
    /\ ~startDisabled
    /\ \/ \E made \in BOOLEAN : startWithoutRecognizer(made)
       \/ startCapture

\* a variant of the catch block that leaves the start button disabled
micErrorKeepDisabled(name) ==
    /\ startDisabled' = startDisabled
    /\ feedback' = MicError(name)
    /\ feedbackColor' = "red"

\* app.js:186-191, the catch block
micError(name) ==
    /\ startDisabled' = FALSE
    /\ feedback' = MicError(name)
    /\ feedbackColor' = "red"

\* app.js:168-184: getUserMedia of attempt k resolves and the handler runs
\* on.  Creating nodes in a closed context either works or throws
\* (throws says which), and a throw lands in the catch block
micGranted(k, throws) ==
    /\ k \in 1..Len(captures)
    /\ Awaiting(k)
    /\ mediaStream' = k
    /\ IF throws /\ captures[audioContext].closeCalls > 0
       THEN /\ captures' = [captures EXCEPT ![k].stream = "live"]
            /\ micError("InvalidStateError")
            /\ UNCHANGED processor
       ELSE /\ captures' = [captures EXCEPT ![k].stream = "live",
                                            ![k].procCtx = audioContext]
            /\ processor' = k
            /\ UNCHANGED <<startDisabled, feedback, feedbackColor>>
    /\ lastEvent' = Event("granted", k)
    /\ UNCHANGED <<loadState, targets, currentTargetIndex, recognizer,
                   audioContext, nextDisabled, imageSrc, promptText, transcript,
                   finals, trail>>

\* app.js:168 and 186-191: getUserMedia of attempt k rejects
micDenied(k) ==
    /\ k \in 1..Len(captures)
    /\ Awaiting(k)
    /\ captures' = [captures EXCEPT ![k].stream = "denied"]
    /\ micError("NotAllowedError")
    /\ lastEvent' = Event("denied", k)
    /\ UNCHANGED <<loadState, targets, currentTargetIndex, recognizer,
                   audioContext, mediaStream, processor, nextDisabled, imageSrc,
                   promptText, transcript, finals, trail>>

\* -------------------------------------------------------------- checkResult

\* app.js:108, the target key as it is compared
targetKeyOf(key) == join(split(trim(toLowerCase(key)), "_"), <<" ">>)

\* app.js:119, the best alternative's text as it is compared
recognizedWordOf(text) == trim(toLowerCase(text))

\* app.js:120, bestAlternative.conf || 0
confidenceOf(alt) == IF alt.conf = NoConf THEN 0 ELSE alt.conf

\* app.js:128
isCorrect(recognizedWord, targetKey, confidence) ==
    recognizedWord = targetKey /\ confidence >= CONFIDENCE_THRESHOLD

\* app.js:111, result.alternatives ? result.alternatives[0] : null
HasBestAlternative(result) ==
    result.alternatives.present /\ Len(result.alternatives.list) > 0

\* app.js:106-139, as the values of <<feedback, feedbackColor, transcript>>
\* after the call
checkResult(result, before) ==
    IF ~HasBestAlternative(result)
    THEN <<FailedToRecognize, "red", before[3]>>
    ELSE LET bestAlternative == result.alternatives.list[1]
             targetKey == targetKeyOf(targets[currentTargetIndex + 1].key)
             recognizedWord == recognizedWordOf(bestAlternative.text)
             confidence == confidenceOf(bestAlternative)
         IN  IF isCorrect(recognizedWord, targetKey, confidence)
             THEN <<Correct(RoundPercent(confidence)), "green", RecognitionComplete>>
             ELSE <<TryAgain(recognizedWord, RoundPercent(confidence)), "red",
                    RecognitionComplete>>

\* app.js:93, if (finalResult.text)
HasText(result) == result.text # <<>>

\* app.js:91-97, recognizer.onfinalresult: checkResult when the result has a
\* text, then stopRecognition (app.js:194-205), whose step thrown throws
onfinalresult(result, thrown) ==
    /\ recognizer.created
    /\ AudioFlowing
    /\ finals' = finals + 1
    /\ LET before == <<feedback, feedbackColor, transcript>>
           after == IF HasText(result) THEN checkResult(result, before) ELSE before
       IN  /\ feedback' = after[1]
           /\ feedbackColor' = after[2]
           /\ transcript' = after[3]
    /\ startDisabled' = FALSE
    /\ captures' = released(captures, thrown)
    /\ lastEvent' = Event("final", [text |-> result.text,
                                    alternatives |-> result.alternatives,
                                    thrown |-> thrown])
    /\ UNCHANGED <<loadState, targets, currentTargetIndex, recognizer,
                   audioContext, mediaStream, processor, nextDisabled, imageSrc,
                   promptText, trail>>

\* app.js:100-102, recognizer.onpartialresult
onpartialresult(partial) ==
    /\ recognizer.created
    /\ AudioFlowing
    /\ transcript' = Partial(partial)
    /\ lastEvent' = Event("partial", partial)
    /\ UNCHANGED <<loadState, targets, currentTargetIndex, recognizer,
                   audioContext, mediaStream, processor, startDisabled,
                   nextDisabled, imageSrc, promptText, feedback, feedbackColor,
                   captures, finals, trail>>

\* ------------------------------------------------------------ specification

\* the events of a session, with at most starts captures begun and at most
\* rounds final results delivered
Events(files, results, starts, rounds, faults) ==
    /\ UNCHANGED worker
    /\ \/ \E text \in files : LoadFetched(text)
       \/ LoadFailed
       \/ Len(captures) < starts /\ startRecognition
       \/ \E k \in 1..starts, throws \in BOOLEAN : micGranted(k, throws)
       \/ \E k \in 1..starts : micDenied(k)
       \/ \E result \in results, thrown \in faults :
               finals < rounds /\ onfinalresult(result, thrown)
       \/ \E partial \in PartialTexts : onpartialresult(partial)
       \/ nextTarget

Next == Events(SessionFiles, SessionResults, MaxStarts, MaxFinals, {NoFault})

Spec == Init /\ [][Next]_vars

NextMatch == Events(TargetFiles, FinalResults, MatchRounds, MatchRounds, {NoFault})

SpecMatch == Init /\ [][NextMatch]_vars

\* a session whose release steps can throw
NextTeardown ==
    Events(SessionFiles, SessionResults, MatchRounds, MatchRounds, TeardownFaults)

SpecTeardown == Init /\ [][NextTeardown]_vars

\* the load handler alone, on every file of ParseFiles
NextLoad ==
    /\ UNCHANGED worker
    /\ \/ \E text \in ParseFiles : LoadFetched(text)
       \/ LoadFailed

SpecLoad == Init /\ [][NextLoad]_vars

\* vosk-worker.js:9-67, onmessage and the promise callbacks
NextWorker ==
    \/ \E callbackId \in CallbackIds : initialize(callbackId)
    \/ \E i \in 1..MaxMessages, outcome \in ModelOutcomes : initializeSettled(i, outcome)
    \/ \E callbackId \in CallbackIds, results \in BOOLEAN : process(callbackId, results)
    \/ \E given \in BOOLEAN : configure("setWords", given)
    \/ \E given \in BOOLEAN : configure("setGrammar", given)
    \/ configure("reset", TRUE)
    \/ setRecognitionParams
    \/ terminate

SpecWorker == Init /\ [][NextWorker]_vars

\* ------------------------------------------------- notions the claims use

\* the final result the last event handled, when the last event was one
LastResult == lastEvent.arg
AfterFinal == lastEvent.op = "final"

\* canonicalization as the specification words it: the key with underscores
\* turned into spaces, lower-cased and trimmed; the text lower-cased and trimmed
CanonicalKey(key) == trim(toLowerCase(join(split(key, "_"), <<" ">>)))
CanonicalText(text) == trim(toLowerCase(text))

\* capture k holds a media stream and an audio context (it was acquired)
Acquired(k) == captures[k].stream = "live"

\* every release step of an acquired capture was invoked at least once
Released(k) ==
    /\ captures[k].stopCalls >= 1
    /\ captures[k].closeCalls >= 1
    /\ captures[k].procCtx = Undefined \/ captures[k].discCalls >= 1

\* capture k is awaiting the microphone, or acquired and not yet torn down
InProgress(k) == Awaiting(k) \/ (Acquired(k) /\ ~Released(k))

Busy == \E k \in 1..Len(captures) : InProgress(k)

\* ------------------------------------------------------------------ claims

\* C1: after a final result with a text and a best alternative, the verdict
\* is Correct iff the canonical recognized text equals the canonical target
\* key and the confidence (0 when missing) is at least 0.30; otherwise it is
\* Incorrect and carries the recognized text and the confidence.
C1_VerdictIffEqualAndConfident ==
    (AfterFinal /\ HasText(LastResult) /\ HasBestAlternative(LastResult)) =>
        LET alt == LastResult.alternatives.list[1]
            heard == CanonicalText(alt.text)
            wanted == CanonicalKey(targets[currentTargetIndex + 1].key)
            conf == IF alt.conf = NoConf THEN 0 ELSE alt.conf
        IN  IF heard = wanted /\ conf >= 300
            THEN feedback.kind = "CORRECT!"
            ELSE feedback = TryAgain(heard, RoundPercent(conf))

\* C2: after a final result with no usable text (an empty text, or no
\* alternatives) the display shows the no-speech verdict; it does not show
\* Incorrect, and it is not left as it was.
C2_NoSpeechVerdict ==
    (AfterFinal /\ (~HasText(LastResult) \/ ~HasBestAlternative(LastResult))) =>
        feedback = FailedToRecognize

\* C3: no two captures are in progress at once: a second capture never
\* begins before the first one has been torn down.
C3_NoSecondCapture ==
    \A j, k \in 1..Len(captures) : (InProgress(j) /\ InProgress(k)) => j = k

\* C4: no release step of an acquired capture is invoked twice, and once a
\* final result has been handled every acquired capture has been released.
C4_ReleasedExactlyOnce ==
    \A k \in 1..Len(captures) :
        Acquired(k) =>
            /\ captures[k].stopCalls <= 1
            /\ captures[k].discCalls <= 1
            /\ captures[k].closeCalls <= 1
            /\ (AfterFinal => Released(k))

\* C5: an advance request made while a capture is awaiting the microphone or
\* capturing changes neither the index nor the displayed target, verdict or
\* start-button state.
C5_AdvanceOnlyWhenIdle ==
    [][(Busy /\ nextTarget) =>
        UNCHANGED <<currentTargetIndex, imageSrc, promptText, feedback,
                    transcript, startDisabled>>]_vars

\* C6: N consecutive advances from index 0 visit 1, 2, ..., N-1, 0 in that
\* order and end at index 0; every advance sets the index to (index + 1) mod
\* N and clears the verdict and the partial transcript.
C6_AdvanceIsCyclic ==
    Len(targets) >= 1 =>
        LET N == Len(targets)
        IN  /\ Len(trail) <= N
            /\ \A j \in 1..Len(trail) : trail[j] = j % N
            /\ trail # <<>> => currentTargetIndex = trail[Len(trail)]
            /\ lastEvent.op = "next" =>
                /\ currentTargetIndex = (lastEvent.arg + 1) % N
                /\ feedback = NoText
                /\ transcript = ClickStart

\* C6 witness: a full cycle over three targets
C6_FullCycle == Len(targets) = 3 /\ trail = <<1, 2, 0>> /\ lastEvent.op = "next"

\* C7: with targets loaded the index is in [0, len(targets) - 1], and the
\* start button is disabled exactly while a capture is in progress: never
\* outside a start-request's interval and never enabled inside it.
C7_IndexValidAndCapturingFlag ==
    Len(targets) > 0 =>
        /\ currentTargetIndex \in 0..(Len(targets) - 1)
        /\ startDisabled <=> Busy

\* C8: a step taken while no recognizer exists, a start-request included,
\* begins no capture: no audio context, no media stream, no processor; so a
\* capture begins only in a later start-request made once the recognizer
\* exists, and never if initialization yields no recognizer.
C8_NoCaptureWithoutRecognizer ==
    [][~recognizer.created =>
        /\ captures = <<>> /\ captures' = <<>>
        /\ audioContext' = Undefined
        /\ mediaStream' = Undefined
        /\ processor' = Undefined]_vars

\* C8 witness: a start-request on loaded targets whose initialization threw
C8_InitFailedStart ==
    /\ lastEvent = Event("start", "setup")
    /\ Len(targets) > 0
    /\ ~recognizer.created
    /\ feedback = Initializing

\* C9: after a microphone denial the error is on the display in red and the
\* start button is enabled again.
C9_MicErrorRecovers ==
    lastEvent.op = "denied" =>
        /\ feedback = MicError("NotAllowedError")
        /\ feedbackColor = "red"
        /\ ~startDisabled

\* C9 witness: the first attempt was denied and the retry is capturing
C9_RetryCaptures ==
    /\ Len(captures) = 2
    /\ captures[1].stream = "denied"
    /\ Feeding(2)
    /\ lastEvent = Event("granted", 2)

\* an error message is on the display
ErrorShown ==
    \/ promptText \in {TargetError, EmptyTargetsError}
    \/ feedback.kind = "Mic Error"
    \/ feedback = Initializing /\ ~recognizer.created

\* C10 as stated: after any error, the load errors included, the start or
\* the next button is enabled.
C10_InteractableAfterAnyError ==
    ErrorShown => (~startDisabled \/ ~nextDisabled)

\* C10 as amended: once a non-empty target list is loaded, whatever error
\* follows (microphone, recognizer initialization), the start or the next
\* button is enabled.
C10_InteractableOnceLoaded ==
    Len(targets) > 0 => (~startDisabled \/ ~nextDisabled)

\* C10 witness: a microphone error with targets loaded, next still enabled
C10_AfterMicError ==
    /\ lastEvent.op = "denied"
    /\ feedback.kind = "Mic Error"
    /\ Len(targets) > 0
    /\ ~nextDisabled

\* the text the load handler got, when the last event was a load
AfterLoad == lastEvent.op = "load"
LoadedText == lastEvent.arg

\* a field without the white space at its ends
Stripped(field) ==
    LET inked == {i \in 1..Len(field) : ~IsWhiteSpace(field[i])}
    IN  IF inked = {} THEN <<>>
        ELSE SubSeq(field, CHOOSE i \in inked : \A j \in inked : i <= j,
                           CHOOSE i \in inked : \A j \in inked : i >= j)

\* the item of a line with exactly three commas, none for any other line
ItemsOfLine(line) ==
    LET commas == {i \in 1..Len(line) : line[i] = ","}
    IN  IF Cardinality(commas) # 3 THEN <<>>
        ELSE LET c1 == CHOOSE i \in commas : \A j \in commas : i <= j
                 c3 == CHOOSE i \in commas : \A j \in commas : i >= j
                 c2 == CHOOSE i \in commas : i # c1 /\ i # c3
             IN  <<[key |-> Stripped(SubSeq(line, 1, c1 - 1)),
                    display |-> Stripped(SubSeq(line, c1 + 1, c2 - 1)),
                    path |-> Stripped(SubSeq(line, c2 + 1, c3 - 1)),
                    category |-> Stripped(SubSeq(line, c3 + 1, Len(line)))]>>

\* the items of the lines of text that start at position p or later, in order
RECURSIVE ItemsFrom(_, _)
ItemsFrom(text, p) ==
    IF p > Len(text) + 1 THEN <<>>
    ELSE LET ends == {i \in p..(Len(text) + 1) : i = Len(text) + 1 \/ text[i] = "\n"}
             e == CHOOSE i \in ends : \A j \in ends : i <= j
         IN  ItemsOfLine(SubSeq(text, p, e - 1)) \o ItemsFrom(text, e + 1)

\* C11: the loaded targets are, in input order, one item for each line with
\* exactly four comma-separated fields, the fields trimmed; every other line
\* and every blank line gives none; a file without a well-formed line gives
\* the empty sequence and the empty-targets error.
C11_ParsedLineByLine ==
    AfterLoad =>
        /\ targets = ItemsFrom(LoadedText, 1)
        /\ targets = <<>> => promptText = EmptyTargetsError

\* C11 witness: a file of a five-field line, a padded well-formed line and a
\* blank line loaded one target
C11_MixedFile ==
    /\ AfterLoad
    /\ LoadedText = join(<<LineLong, LineB, LineBlank>>, <<"\n">>)
    /\ Len(targets) = 1
    /\ targets[1].key = <<"_", "B">>

\* the load ended without a target: the fetch failed or no line was valid
NoTargetsLoaded ==
    loadState = "failed" \/ (loadState = "loaded" /\ targets = <<>>)

\* C12: once the load has ended without a target, its message stays on the
\* display, and no start or advance request makes a recognizer, starts a
\* capture, shows a target or puts a listening status on the display.
C12_NoTargetsIsTerminal ==
    NoTargetsLoaded =>
        /\ promptText = IF loadState = "failed" THEN TargetError ELSE EmptyTargetsError
        /\ ~recognizer.created
        /\ captures = <<>>
        /\ audioContext = Undefined /\ mediaStream = Undefined /\ processor = Undefined
        /\ imageSrc = <<>>
        /\ feedback \in {NoText, Initializing}
        /\ nextDisabled

\* C12 witness: a start-request made after the fetch failed
C12_StartAfterFailedLoad ==
    /\ loadState = "failed"
    /\ promptText = TargetError
    /\ lastEvent = Event("start", "setup")

\* the phrase of a key, character by character: an underscore becomes a
\* space, a letter its lower-case form
PhraseOf(key) ==
    [i \in 1..Len(key) |-> IF key[i] = "_" THEN " " ELSE LowerChar(key[i])]

\* the phrases of targets n, n + 1, ... in order, separated by " | "
RECURSIVE AlternationFrom(_, _)
AlternationFrom(tgts, n) ==
    IF n > Len(tgts) THEN <<>>
    ELSE IF n = Len(tgts) THEN PhraseOf(tgts[n].key)
    ELSE PhraseOf(tgts[n].key) \o <<" ", "|", " ">> \o AlternationFrom(tgts, n + 1)

\* C13: the grammar of the recognizer is the alternation of one phrase per
\* target, in the order of the targets, duplicates kept, each phrase the key
\* with underscores turned into spaces and lower-cased.
C13_GrammarFromTargets ==
    recognizer.created => recognizer.grammar = AlternationFrom(targets, 1)

\* C13 witness: a recognizer built from two targets with the same key, which
\* has an upper-case letter and a leading underscore
C13_DuplicateKeys ==
    /\ recognizer.created
    /\ Len(targets) = 2
    /\ targets[1].key = <<"_", "B">> /\ targets[2].key = <<"_", "B">>
    /\ recognizer.grammar = <<" ", "b", " ", "|", " ", " ", "b">>

\* C14: canonicalizing a target key as checkResult does, twice, gives what
\* canonicalizing it once gives, for every loaded key.
C14_KeyCanonicalizationIdempotent ==
    \A i \in 1..Len(targets) :
        targetKeyOf(targetKeyOf(targets[i].key)) = targetKeyOf(targets[i].key)

\* C18: when the best alternative is exactly the grammar phrase of the
\* current target and its confidence is at least 0.30, the verdict is Correct.
C18_OwnPhraseIsCorrect ==
    (AfterFinal /\ HasText(LastResult) /\ HasBestAlternative(LastResult)) =>
        LET alt == LastResult.alternatives.list[1]
        IN  (/\ alt.text = grammarPhrase(targets[currentTargetIndex + 1].key)
             /\ alt.conf # NoConf
             /\ alt.conf >= 300)
            => feedback.kind = "CORRECT!"

\* C15: in every teardown each release step that did not itself throw is
\* performed: the tracks of the stream are stopped, the processor is
\* disconnected and the context is closed, whatever the other steps did.
C15_TeardownStepsIndependent ==
    [][lastEvent'.op = "final" =>
        LET thrown == lastEvent'.arg.thrown
        IN  /\ (mediaStream # Undefined /\ thrown # "stop") =>
                captures'[mediaStream].stopCalls = captures[mediaStream].stopCalls + 1
            /\ (processor # Undefined /\ thrown # "disconnect") =>
                captures'[processor].discCalls = captures[processor].discCalls + 1
            /\ (audioContext # Undefined /\ thrown # "close") =>
                captures'[audioContext].closeCalls = captures[audioContext].closeCalls + 1]_vars

\* C16: a recognizer, once made, is never made again, and whenever one
\* exists the load has completed with targets and its grammar is the one of
\* the whole loaded list; a start click before the fetch completes makes none.
C16_OneRecognizerFromWholeList ==
    [][/\ recognizer.created => recognizer' = recognizer
       /\ recognizer'.instances <= 1
       /\ recognizer'.created =>
            /\ loadState' = "loaded"
            /\ targets' # <<>>
            /\ recognizer'.grammar = AlternationFrom(targets', 1)]_vars

\* C16 witness: a start click while the fetch is still pending
C16_StartBeforeFetch ==
    /\ loadState = "loading"
    /\ lastEvent = Event("start", "setup")
    /\ feedback = Initializing
    /\ ~recognizer.created

\* C17: a verdict is computed against the target that was current when the
\* capture it ends was started.
C17_VerdictForStartedTarget ==
    (/\ AfterFinal /\ HasText(LastResult) /\ HasBestAlternative(LastResult)
     /\ processor # Undefined) =>
        captures[processor].target = currentTargetIndex

\* C19: a start attempt whose microphone request was denied has had its
\* audio context closed.
C19_DeniedStartLeavesNothing ==
    \A k \in 1..Len(captures) :
        captures[k].stream = "denied" => captures[k].closeCalls >= 1

\* C20: in the worker, a process, setWords, setGrammar or reset message that
\* arrives while no recognizer exists calls nothing and posts nothing; a
\* process message posts at most one message, a result with its callbackId,
\* and only when a recognizer exists and acceptWaveform returned a result; a
\* Vosk.Model promise that fails posts exactly one error message with the
\* callbackId of its request.
C20_WorkerGuardsAndReplies ==
    [][LET command == worker'.last.command
           guarded == command \in {"process", "setWords", "setGrammar", "reset"}
       IN  /\ (guarded /\ ~worker.recognizer) =>
                (worker'.posted = worker.posted /\ worker'.calls = worker.calls)
           /\ command = "process" =>
                worker'.posted =
                    IF worker.recognizer /\ worker'.last.results
                    THEN Append(worker.posted, ResultMessage(worker'.last.callbackId))
                    ELSE worker.posted
           /\ (command = "settled" /\ worker'.last.outcome \in {"null", "rejected"}) =>
                /\ worker'.posted =
                     Append(worker.posted, ErrorMessage(worker'.last.callbackId))
                /\ worker'.recognizer = worker.recognizer
                /\ Len(worker'.pending) = Len(worker.pending) - 1]_vars

\* C20 witness: after a failed initialize, whose error was posted, a process
\* message with a result to give was handled and nothing more was posted
C20_ProcessAfterFailedInit ==
    /\ worker.last.command = "process"
    /\ worker.last.results
    /\ ~worker.recognizer
    /\ worker.posted = <<ErrorMessage(1)>>
    /\ worker.calls = <<>>

====
